---- MODULE Spec2Model ----
(***************************************************************************)
(* Mochi: a package server (src/mochi-server.py) and its command-line      *)
(* client (src/mochi.py).                                                  *)
(*                                                                         *)
(* Three specifications share the module:                                  *)
(*   Spec        the server: server.ini, the package storage and the five  *)
(*               HTTP endpoints;                                            *)
(*   SpecClient  the client commands touch, version, list and fetch, with  *)
(*               the server's answers and the transport as inputs;         *)
(*   SpecConfig  the client commands token and server over mochi.ini.      *)
(*                                                                         *)
(* Text is modelled as a sequence of symbols (one-character strings, and   *)
(* the seven characters "Bearer " as one symbol); file contents as         *)
(* sequences of bytes.  SHA1 is modelled by a collision-free digest of     *)
(* the bounded byte strings, fed chunk by chunk as the code feeds it.      *)
(***************************************************************************)
EXTENDS Integers, Sequences, FiniteSets, TLC

VARIABLES
    serverIni,      \* runtime/server.ini on disk
    storage,        \* the files of the package directory ("instance")
    response,       \* the last request the server handled, with its answer
    localFiles,     \* the client's file system
    run,            \* the last client command that ran, with what it did
    clientIni,      \* mochi.ini on disk
    lastCall        \* history of the token/server commands (SpecConfig)

vars == <<serverIni, storage, response, localFiles, run, clientIni, lastCall>>

\* ------------------------------------------------------------------ bounds

\* Sections an edited server.ini holds at most.
MaxSections == 2
\* Length of a package file, in bytes.
MaxFileLen == 1
\* Length of the body a download delivers, and of a file the client holds.
MaxBodyLen == 1
\* Length of a value given to `mochi token` / `mochi server`, in symbols.
MaxValueLen == 2

\* ------------------------------------------------------- program constants

\* file.read(4096) in both compute_sha1_hash functions.
ReadChunkSize == 4096
\* response.iter_content(chunk_size=8192).
DownloadChunkSize == 8192

\* ------------------------------------------------------------- text, bytes

Bytes == {0, 1}

RECURSIVE ByteSeqs(_)
ByteSeqs(n) ==
    IF n = 0 THEN {<<>>}
    ELSE LET shorter == ByteSeqs(n - 1)
         IN  shorter \cup {Append(s, b) : s \in {t \in shorter : Len(t) = n - 1}, b \in Bytes}

Take(s, n) == SubSeq(s, 1, IF n < Len(s) THEN n ELSE Len(s))
Drop(s, n) == SubSeq(s, (IF n < Len(s) THEN n ELSE Len(s)) + 1, Len(s))

\* str.strip(): leading and trailing white space removed.
RECURSIVE LStrip(_)
LStrip(s) == IF s # <<>> /\ Head(s) = " " THEN LStrip(Tail(s)) ELSE s
RECURSIVE RStrip(_)
RStrip(s) == IF s # <<>> /\ s[Len(s)] = " " THEN RStrip(SubSeq(s, 1, Len(s) - 1)) ELSE s
Strip(s) == RStrip(LStrip(s))

\* str.removeprefix('Bearer ').
RemovePrefixBearer(s) == IF s # <<>> /\ Head(s) = "Bearer " THEN Tail(s) ELSE s

\* str.lower() on a section name.
Lower(name) == IF name \in {"Server", "SERVER"} THEN "server" ELSE name

\* hashlib.sha1: update() folds the bytes of a chunk into the state, hexdigest()
\* gives the state out.  The digest is collision-free on the byte strings.
RECURSIVE Sha1Update(_, _)
Sha1Update(h, chunk) ==
    IF chunk = <<>> THEN h
    ELSE Sha1Update(h * (Cardinality(Bytes) + 1) + Head(chunk) + 1, Tail(chunk))

\* hashlib.sha1(): the state before any byte.
Sha1New == 0

\* SHA1 of a byte string, computed in one piece.
Sha1Of(bytes) == Sha1Update(Sha1New, bytes)

\* for chunk in iter(lambda: file.read(4096), b''): sha1_hash.update(chunk)
RECURSIVE HashChunks(_, _)
HashChunks(h, rest) ==
    IF Take(rest, ReadChunkSize) = <<>> THEN h
    ELSE HashChunks(Sha1Update(h, Take(rest, ReadChunkSize)), Drop(rest, ReadChunkSize))

\* compute_sha1_hash with a read loop that stops at the first short chunk
\* without hashing it.
server_compute_sha1_hash_full_chunks_only(bytes) ==
    HashChunks(Sha1New, Take(bytes, (Len(bytes) \div ReadChunkSize) * ReadChunkSize))

\* The server's compute_sha1_hash(file_path) on a file holding `bytes`.
server_compute_sha1_hash(bytes) == HashChunks(Sha1New, bytes)

\* ------------------------------------------------------------ configparser

DefaultSect == "DEFAULT"
NoOpts == [o \in {} |-> <<>>]
None == [some |-> FALSE, val |-> <<>>]
Some(v) == [some |-> TRUE, val |-> v]
\* Python truthiness of an Optional[str].
Truthy(x) == x.some /\ x.val # <<>>

\* ConfigParser.has_section(name); the default section is not one.
HasSection(cfg, name) == \E i \in DOMAIN cfg.sections : cfg.sections[i].name = name
SectionOpts(cfg, name) ==
    cfg.sections[CHOOSE i \in DOMAIN cfg.sections : cfg.sections[i].name = name].opts
\* `key in configuration`: ConfigParser.__contains__.
Contains(cfg, key) == key = DefaultSect \/ HasSection(cfg, key)
\* ConfigParser.sections(): the section names in file order, without DEFAULT.
Sections(cfg) == [i \in DOMAIN cfg.sections |-> cfg.sections[i].name]
\* ConfigParser.get(section, option, fallback=None): a missing section gives the
\* fallback; a section's options are its own, then those of DEFAULT.
ConfigGet(cfg, section, option) ==
    IF section # DefaultSect /\ ~HasSection(cfg, section) THEN None
    ELSE LET own == IF section = DefaultSect THEN NoOpts ELSE SectionOpts(cfg, section)
         IN  IF option \in DOMAIN own THEN Some(own[option])
             ELSE IF option \in DOMAIN cfg.defaults THEN Some(cfg.defaults[option])
             ELSE None

\* ------------------------------------------------------------------ server

\* What the model's server.ini and requests are drawn from.
SectionNames == {"server", "Server", "mochi", "widget"}
PackageNames == SectionNames \cup {DefaultSect}
FileNames == {<<"widget.zip">>}
\* The values an edit gives a `file` option: a file name, or nothing (`file =`).
FileValues == FileNames \cup {<<>>}
TokenValues == {<<>>, <<"a">>}
NoHeader == [present |-> FALSE, value |-> <<>>]
Header(v) == [present |-> TRUE, value |-> v]
Headers ==
    {NoHeader, Header(<<"Bearer ", "a">>), Header(<<"Bearer ", "b">>), Header(<<"a", " ">>)}
\* The sections an edit may give a `token` and a `file` option.
TokenSections == {"server", "mochi"}
FileSections == {"Server", "widget", DefaultSect}

\* The configuration load_configuration builds and writes when server.ini is missing.
ServerDefaultConfig ==
    [defaults |-> NoOpts,
     sections |-> <<[name |-> "server",
                     opts |-> [o \in {"port", "token"} |->
                                  IF o = "port" THEN <<"8", "0", "8", "0">>
                                  ELSE <<"0", "0", "0", "0">>]]>>]

NoIni == [exists |-> FALSE, defaults |-> NoOpts, sections |-> <<>>]
IniOf(cfg) == [exists |-> TRUE, defaults |-> cfg.defaults, sections |-> cfg.sections]

\* The server's load_configuration(): the parsed file, or the default, which it
\* writes to disk; `ini` is the file afterwards.
server_load_configuration(ini) ==
    IF ~ini.exists
    THEN [cfg |-> ServerDefaultConfig, ini |-> IniOf(ServerDefaultConfig)]
    ELSE [cfg |-> [defaults |-> ini.defaults, sections |-> ini.sections], ini |-> ini]

\* A handler's answer: the status, the body's fields, and the steps the handler
\* took, in order.
Answer(status, trace) ==
    [status |-> status, names |-> <<>>, pkg |-> "", filename |-> <<>>, sha1 |-> -1,
     data |-> <<>>, trace |-> trace]

\* verify_token(config): TRUE when it aborts with 401.
verify_token(cfg, header) ==
    LET valid_token == ConfigGet(cfg, "mochi", "token")
        provided_token ==
            Strip(RemovePrefixBearer(IF header.present THEN header.value ELSE <<>>))
    IN  Truthy(valid_token) /\ provided_token # valid_token.val

\* os.path.isfile(os.path.join(package_directory, file_name)).
IsFile(store, file_name) == file_name \in DOMAIN store /\ store[file_name].exists

api_touch == Answer(200, <<>>)

api_version == Answer(200, <<>>)

api_list_packages(cfg, header) ==
    IF verify_token(cfg, header)
    THEN Answer(401, <<"load_configuration", "verify_token">>)
    ELSE [Answer(200, <<"load_configuration", "verify_token", "sections">>)
             EXCEPT !.names = SelectSeq(Sections(cfg), LAMBDA s : Lower(s) # "server")]

\* api_get_manifest with the token verified after the registry and the file
\* have been looked at.
api_get_manifest_lookup_first(cfg, store, package_name, header) ==
    LET file_name == ConfigGet(cfg, package_name, "file")
        t1 == <<"load_configuration", "lookup">>
        t2 == Append(t1, "get_file")
        t3 == Append(t2, "isfile")
        t4 == Append(t3, "verify_token")
        t5 == Append(t4, "compute_sha1_hash")
    IN  IF ~Contains(cfg, package_name) THEN Answer(404, t1)
        ELSE IF ~Truthy(file_name) THEN Answer(500, t2)
        ELSE IF ~IsFile(store, file_name.val) THEN Answer(404, t3)
        ELSE IF verify_token(cfg, header) THEN Answer(401, t4)
        ELSE [Answer(200, t5) EXCEPT
                 !.pkg = package_name,
                 !.filename = file_name.val,
                 !.sha1 = server_compute_sha1_hash(store[file_name.val].bytes)]

api_get_manifest(cfg, store, package_name, header) ==
    LET file_name == ConfigGet(cfg, package_name, "file")
        t1 == <<"load_configuration", "verify_token">>
        t2 == Append(t1, "lookup")
        t3 == Append(t2, "get_file")
        t4 == Append(t3, "isfile")
        t5 == Append(t4, "compute_sha1_hash")
    IN  IF verify_token(cfg, header) THEN Answer(401, t1)
        ELSE IF ~Contains(cfg, package_name) THEN Answer(404, t2)
        ELSE IF ~Truthy(file_name) THEN Answer(500, t3)
        ELSE IF ~IsFile(store, file_name.val) THEN Answer(404, t4)
        ELSE [Answer(200, t5) EXCEPT
                 !.pkg = package_name,
                 !.filename = file_name.val,
                 !.sha1 = server_compute_sha1_hash(store[file_name.val].bytes)]

api_download_package(cfg, store, package_name, header) ==
    LET file_name == ConfigGet(cfg, package_name, "file")
        t1 == <<"load_configuration", "verify_token">>
        t2 == Append(t1, "lookup")
        t3 == Append(t2, "get_file")
        t4 == Append(t3, "isfile")
        t5 == Append(t4, "send_file")
    IN  IF verify_token(cfg, header) THEN Answer(401, t1)
        ELSE IF ~Contains(cfg, package_name) THEN Answer(404, t2)
        ELSE IF ~Truthy(file_name) THEN Answer(500, t3)
        ELSE IF ~IsFile(store, file_name.val) THEN Answer(404, t4)
        ELSE [Answer(200, t5) EXCEPT
                 !.filename = file_name.val,
                 !.data = store[file_name.val].bytes]

\* The request and its answer, as `response` keeps them.
Exchange(endpoint, name, header, answer) ==
    [endpoint |-> endpoint, name |-> name, header |-> header, answer |-> answer]

NoExchange == Exchange("none", "", NoHeader, Answer(0, <<>>))

\* No request is being answered.
Idle == response.endpoint = "none"

ClientVarsUnchanged == UNCHANGED <<localFiles, run>>
ConfigVarsUnchanged == UNCHANGED <<clientIni, lastCall>>

GET_api_touch ==
    /\ Idle
    /\ response' = Exchange("touch", "", NoHeader, api_touch)
    /\ UNCHANGED <<serverIni, storage>>
    /\ ClientVarsUnchanged /\ ConfigVarsUnchanged

GET_api_version ==
    /\ Idle
    /\ response' = Exchange("version", "", NoHeader, api_version)
    /\ UNCHANGED <<serverIni, storage>>
    /\ ClientVarsUnchanged /\ ConfigVarsUnchanged

GET_api_list ==
    /\ Idle
    /\ \E header \in Headers :
          LET loaded == server_load_configuration(serverIni)
          IN  /\ serverIni' = loaded.ini
              /\ response' = Exchange("list", "", header, api_list_packages(loaded.cfg, header))
              /\ UNCHANGED storage
    /\ ClientVarsUnchanged /\ ConfigVarsUnchanged

GET_api_get ==
    /\ Idle
    /\ \E package_name \in PackageNames, header \in Headers :
          LET loaded == server_load_configuration(serverIni)
          IN  /\ serverIni' = loaded.ini
              /\ response' = Exchange("get", package_name, header,
                                 api_get_manifest(loaded.cfg, storage, package_name, header))
              /\ UNCHANGED storage
    /\ ClientVarsUnchanged /\ ConfigVarsUnchanged

GET_api_download ==
    /\ Idle
    /\ \E package_name \in PackageNames, header \in Headers :
          LET loaded == server_load_configuration(serverIni)
          IN  /\ serverIni' = loaded.ini
              /\ response' = Exchange("download", package_name, header,
                                 api_download_package(loaded.cfg, storage, package_name, header))
              /\ UNCHANGED storage
    /\ ClientVarsUnchanged /\ ConfigVarsUnchanged

\* The answer reaches the caller; until then `response` shows it beside the
\* configuration and the files it was computed from.
ReturnResponse ==
    /\ ~Idle
    /\ response' = NoExchange
    /\ UNCHANGED <<serverIni, storage>>
    /\ ClientVarsUnchanged /\ ConfigVarsUnchanged

\* --- the administrator's edits of server.ini and of the package directory,
\* --- which the server reads afresh on every request

RemoveAt(seq, i) == SubSeq(seq, 1, i - 1) \o SubSeq(seq, i + 1, Len(seq))
WithOpt(opts, o, v) == [k \in DOMAIN opts \cup {o} |-> IF k = o THEN v ELSE opts[k]]
WithoutOpt(opts, o) == [k \in DOMAIN opts \ {o} |-> opts[k]]

\* A new section at the end of the file; [server] comes with its port.
EditAddSection ==
    /\ Idle
    /\ serverIni.exists
    /\ Len(serverIni.sections) < MaxSections
    /\ \E name \in SectionNames :
          /\ \A i \in DOMAIN serverIni.sections : serverIni.sections[i].name # name
          /\ serverIni' =
                [serverIni EXCEPT !.sections =
                    Append(@, [name |-> name,
                               opts |-> IF name = "server"
                                        THEN WithOpt(NoOpts, "port", <<"8", "0", "8", "0">>)
                                        ELSE NoOpts])]
    /\ UNCHANGED <<storage, response>>
    /\ ClientVarsUnchanged /\ ConfigVarsUnchanged

EditRemoveSection ==
    /\ Idle
    /\ serverIni.exists
    /\ \E i \in DOMAIN serverIni.sections :
          serverIni' = [serverIni EXCEPT !.sections = RemoveAt(@, i)]
    /\ UNCHANGED <<storage, response>>
    /\ ClientVarsUnchanged /\ ConfigVarsUnchanged

EditSetToken ==
    /\ Idle
    /\ serverIni.exists
    /\ \E i \in DOMAIN serverIni.sections, v \in TokenValues :
          /\ serverIni.sections[i].name \in TokenSections
          /\ serverIni' = [serverIni EXCEPT !.sections[i].opts = WithOpt(@, "token", v)]
    /\ UNCHANGED <<storage, response>>
    /\ ClientVarsUnchanged /\ ConfigVarsUnchanged

EditSetFile ==
    /\ Idle
    /\ serverIni.exists
    /\ \E v \in FileValues :
          \/ /\ DefaultSect \in FileSections
             /\ serverIni' = [serverIni EXCEPT !.defaults = WithOpt(@, "file", v)]
          \/ \E i \in DOMAIN serverIni.sections :
                /\ serverIni.sections[i].name \in FileSections
                /\ serverIni' = [serverIni EXCEPT !.sections[i].opts = WithOpt(@, "file", v)]
    /\ UNCHANGED <<storage, response>>
    /\ ClientVarsUnchanged /\ ConfigVarsUnchanged

EditRemoveOption ==
    /\ Idle
    /\ serverIni.exists
    /\ \/ /\ "file" \in DOMAIN serverIni.defaults
          /\ serverIni' = [serverIni EXCEPT !.defaults = WithoutOpt(@, "file")]
       \/ \E i \in DOMAIN serverIni.sections, o \in {"token", "file"} :
             /\ o \in DOMAIN serverIni.sections[i].opts
             /\ serverIni' = [serverIni EXCEPT !.sections[i].opts = WithoutOpt(@, o)]
    /\ UNCHANGED <<storage, response>>
    /\ ClientVarsUnchanged /\ ConfigVarsUnchanged

StoreWrite ==
    /\ Idle
    /\ \E f \in FileNames, bytes \in ByteSeqs(MaxFileLen) :
          storage' = [storage EXCEPT ![f] = [exists |-> TRUE, bytes |-> bytes]]
    /\ UNCHANGED <<serverIni, response>>
    /\ ClientVarsUnchanged /\ ConfigVarsUnchanged

StoreRemove ==
    /\ Idle
    /\ \E f \in FileNames :
          /\ storage[f].exists
          /\ storage' = [storage EXCEPT ![f] = [exists |-> FALSE, bytes |-> <<>>]]
    /\ UNCHANGED <<serverIni, response>>
    /\ ClientVarsUnchanged /\ ConfigVarsUnchanged


\* ------------------------------------------------------ claims on the server

\* The token a request carries: the Authorization value without its "Bearer "
\* scheme and surrounding blanks; nothing when the header is missing.
Credential(header) ==
    IF header.present THEN Strip(RemovePrefixBearer(header.value)) ELSE <<>>

\* The `token` option a section of server.ini holds itself.
TokenOf(section) ==
    IF \E i \in DOMAIN serverIni.sections :
          /\ serverIni.sections[i].name = section
          /\ "token" \in DOMAIN serverIni.sections[i].opts
    THEN SectionOpts(serverIni, section)["token"]
    ELSE <<>>

\* The request carries the token of every settings section that holds one.
Authorized ==
    \A section \in {"server", "mochi"} :
        TokenOf(section) # <<>> => Credential(response.header) = TokenOf(section)

\* The registry: the sections of server.ini except the reserved [server].
Registry == {serverIni.sections[i].name : i \in DOMAIN serverIni.sections} \ {"server"}

\* The `file` value of a registry entry: its own, else the one of [DEFAULT].
RegistryFile(p) ==
    LET own == SectionOpts(serverIni, p)
    IN  IF "file" \in DOMAIN own THEN own["file"]
        ELSE IF "file" \in DOMAIN serverIni.defaults THEN serverIni.defaults["file"]
        ELSE <<>>

Guarded == response.endpoint \in {"list", "get", "download"}

\* C1: with a non-empty token in the [server] section of server.ini, a request to
\* /api/list, /api/get/<name> or /api/download/<name> without an Authorization
\* header, or with another token than the configured one, is answered with 401.
C1_ServerTokenEnforced ==
    (/\ Guarded
     /\ TokenOf("server") # <<>>
     /\ (~response.header.present \/ Credential(response.header) # TokenOf("server")))
    => response.answer.status = 401

\* C3: an authorized GET /api/get/p for a registry entry p whose file exists is
\* answered 200 with name = p, filename = the entry's file value and sha1 = the
\* SHA1 of the bytes the file holds at the time of the request, whatever edits
\* and requests came before.
C3_ManifestIsCurrent ==
    (/\ response.endpoint = "get"
     /\ Authorized
     /\ response.name \in Registry
     /\ RegistryFile(response.name) # <<>>
     /\ RegistryFile(response.name) \in DOMAIN storage
     /\ storage[RegistryFile(response.name)].exists)
    => /\ response.answer.status = 200
       /\ response.answer.pkg = response.name
       /\ response.answer.filename = RegistryFile(response.name)
       /\ response.answer.sha1 = Sha1Of(storage[RegistryFile(response.name)].bytes)

\* C3 witness: a manifest served for [widget] after the file was given content.
C3_Witness ==
    /\ response.endpoint = "get"
    /\ response.name = "widget"
    /\ Authorized
    /\ TokenOf("mochi") # <<>>
    /\ response.answer.status = 200
    /\ storage[response.answer.filename].bytes # <<>>
    /\ response.answer.sha1 = Sha1Of(storage[response.answer.filename].bytes)

\* C4: an authorized request to /api/get/p or /api/download/p for a name p that
\* is not in the registry is answered with 404.
C4_UnknownPackageIs404 ==
    (/\ response.endpoint \in {"get", "download"}
     /\ Authorized
     /\ response.name \notin Registry)
    => response.answer.status = 404

\* The steps of a handler that look a package up, touch its file or send it.
PackageSteps == {"lookup", "get_file", "isfile", "compute_sha1_hash", "send_file"}

\* C7: on /api/get/<name> and /api/download/<name>, when the configuration gives
\* the gate a token (verify_token reads it from [mochi]) and the request's token
\* is missing or differs, the request is rejected with 401 before the name is
\* looked up, the file checked, hashed or sent, and the answer is the same
\* whatever the state of the package.
C7_RejectedBeforeLookup ==
    (response.endpoint \in {"get", "download"})
    => /\ (TokenOf("mochi") # <<>> /\ Credential(response.header) # TokenOf("mochi"))
             => response.answer = Answer(401, <<"load_configuration", "verify_token">>)
       /\ response.answer.status = 401
             => \A i \in DOMAIN response.answer.trace :
                    response.answer.trace[i] \notin PackageSteps

\* C7 witness: a request without the token, rejected although the package is
\* registered and its file is there.
C7_Witness ==
    /\ response.endpoint = "get"
    /\ response.name = "widget"
    /\ TokenOf("mochi") # <<>>
    /\ ~response.header.present
    /\ "widget" \in Registry
    /\ RegistryFile("widget") \in DOMAIN storage
    /\ storage[RegistryFile("widget")].exists
    /\ response.answer.status = 401

\* C9: an authorized /api/list answers with the section names of server.ini in
\* file order, without any that is a settings section ([server], or [mochi], which
\* the token is read from) in any casing.
C9_ListHidesSettings ==
    (response.endpoint = "list" /\ Authorized)
    => /\ response.answer.status = 200
       /\ response.answer.names =
             SelectSeq(Sections(serverIni), LAMBDA s : Lower(s) \notin {"server", "mochi"})

\* C10: a name /api/get serves with 200 is in the list /api/list gives the same
\* caller in the same state.
C10_ServedImpliesListed ==
    (response.endpoint = "get" /\ Authorized /\ response.answer.status = 200)
    => \E i \in DOMAIN Sections(serverIni) :
          /\ Sections(serverIni)[i] = response.name
          /\ Lower(Sections(serverIni)[i]) # "server"

\* ------------------------------------------------------------------ client

\* os.getcwd(), and the `filename` values a manifest is drawn from: a plain name,
\* a name under the parent directory, an absolute path.
Cwd == <<"/", "home", "/", "work">>
ManifestFileNames ==
    {<<"widget.zip">>, <<"..", "/", "widget.zip">>, <<"/", "tmp", "/", "widget.zip">>}

\* os.path.join(a, b): b alone when it is absolute, else a, a separator, b.
PathJoin(a, b) ==
    IF b # <<>> /\ Head(b) = "/" THEN b
    ELSE IF a = <<>> \/ a[Len(a)] = "/" THEN a \o b
    ELSE a \o <<"/">> \o b

\* The file a path names, as the operating system resolves it from the root:
\* separators dropped, ".." leaving the directory reached so far.
RECURSIVE Walk(_, _)
Walk(at, rest) ==
    IF rest = <<>> THEN at
    ELSE IF Head(rest) = "/" THEN Walk(at, Tail(rest))
    ELSE IF Head(rest) = ".."
         THEN Walk(IF at = <<>> THEN at ELSE SubSeq(at, 1, Len(at) - 1), Tail(rest))
    ELSE Walk(Append(at, Head(rest)), Tail(rest))
Resolve(path) == Walk(<<>>, path)

\* The files of the client's machine the model follows.
LocalPaths == {Resolve(PathJoin(Cwd, f)) : f \in ManifestFileNames}
NoFile == [exists |-> FALSE, bytes |-> <<>>]
File(bytes) == [exists |-> TRUE, bytes |-> bytes]

\* The client's compute_sha1_hash(file_path) on a file holding `bytes`.
client_compute_sha1_hash(bytes) == HashChunks(Sha1New, bytes)

\* for chunk in response.iter_content(chunk_size=8192): file.write(chunk)
RECURSIVE WriteChunks(_, _)
WriteChunks(written, rest) ==
    IF rest = <<>> THEN written
    ELSE WriteChunks(written \o Take(rest, DownloadChunkSize), Drop(rest, DownloadChunkSize))

\* What an HTTP request of the client meets: a transport failure (requests.get
\* raises), or a reply.  A download's body may break off: iter_content raises
\* once `body` has arrived.
TransportError == [kind |-> "error", status |-> 0]
Reply(status) == [kind |-> "reply", status |-> status]
Replies == {TransportError, Reply(200), Reply(500)}
ErrorStatuses == {401, 404, 500}
NoSha1 == [some |-> FALSE, val |-> -1]
ManifestReplies ==
    {[kind |-> "error", status |-> 0, filename |-> <<>>, sha1 |-> NoSha1]}
    \cup {[kind |-> "reply", status |-> st, filename |-> <<>>, sha1 |-> NoSha1] :
             st \in ErrorStatuses}
    \cup {[kind |-> "reply", status |-> 200, filename |-> f, sha1 |-> h] :
             f \in ManifestFileNames,
             h \in {NoSha1} \cup {[some |-> TRUE, val |-> Sha1Of(b)] : b \in ByteSeqs(MaxBodyLen)}}
DownloadReplies ==
    {[kind |-> "error", status |-> 0, body |-> <<>>, broken |-> FALSE]}
    \cup {[kind |-> "reply", status |-> st, body |-> <<>>, broken |-> FALSE] :
             st \in ErrorStatuses}
    \cup {[kind |-> "reply", status |-> 200, body |-> b, broken |-> k] :
             b \in ByteSeqs(MaxBodyLen), k \in BOOLEAN}

\* The outcome of a function of the client: how it ended ("returned" with its
\* value, or "raised"), what it printed, the files afterwards and the paths it
\* opened for writing or removed.
Outcome(exit, value, printed, files, touched) ==
    [exit |-> exit, value |-> value, printed |-> printed, files |-> files, touched |-> touched]

\* download_file with the os.remove of the mismatching file left out.
download_file_keeps_mismatch(dl, files, file_path, sha1_expected) ==
    LET target == Resolve(file_path)
        written == [files EXCEPT ![target] = File(WriteChunks(<<>>, dl.body))]
    IN  IF dl.kind = "error" THEN Outcome("raised", FALSE, <<>>, files, {})
        ELSE IF dl.status # 200
             THEN Outcome("returned", FALSE, <<"download_failed">>, files, {})
        ELSE IF dl.broken THEN Outcome("raised", FALSE, <<>>, written, {target})
        ELSE IF /\ sha1_expected.some
                /\ client_compute_sha1_hash(written[target].bytes) # sha1_expected.val
             THEN Outcome("returned", FALSE, <<"sha1_mismatch">>, written, {target})
        ELSE Outcome("returned", TRUE, <<>>, written, {target})

\* download_file(url, file_path, sha1_expected), the request meeting `dl`.
download_file(dl, files, file_path, sha1_expected) ==
    LET target == Resolve(file_path)
        written == [files EXCEPT ![target] = File(WriteChunks(<<>>, dl.body))]
        removed == [files EXCEPT ![target] = NoFile]
    IN  IF dl.kind = "error" THEN Outcome("raised", FALSE, <<>>, files, {})
        ELSE IF dl.status # 200
             THEN Outcome("returned", FALSE, <<"download_failed">>, files, {})
        ELSE IF dl.broken THEN Outcome("raised", FALSE, <<>>, written, {target})
        ELSE IF /\ sha1_expected.some
                /\ client_compute_sha1_hash(written[target].bytes) # sha1_expected.val
             THEN Outcome("returned", FALSE, <<"sha1_mismatch">>, removed, {target})
        ELSE Outcome("returned", TRUE, <<>>, written, {target})

\* command_fetch(package_name), the manifest request meeting `mf` and the
\* download request `dl`.
command_fetch(mf, dl, files) ==
    IF mf.kind = "error" THEN Outcome("raised", FALSE, <<>>, files, {})
    ELSE IF mf.status # 200 THEN Outcome("returned", FALSE, <<"not_found">>, files, {})
    ELSE LET file_path == PathJoin(Cwd, mf.filename)
             got == download_file(dl, files, file_path, mf.sha1)
         IN  [got EXCEPT !.printed =
                 <<"fetching">> \o got.printed
                 \o (IF got.exit = "returned" /\ got.value THEN <<"done">> ELSE <<>>)]

\* command_touch(): every exception is caught and printed.
command_touch(reply, files) ==
    IF reply.kind = "error" THEN Outcome("returned", FALSE, <<"error">>, files, {})
    ELSE IF reply.status = 200 THEN Outcome("returned", FALSE, <<"online", "url">>, files, {})
    ELSE Outcome("returned", FALSE, <<"replied_with_code">>, files, {})

\* command_version(); `same` tells whether the server's version is the client's.
command_version(reply, same, files) ==
    IF reply.kind = "error" THEN Outcome("returned", FALSE, <<"error">>, files, {})
    ELSE IF reply.status = 200
         THEN Outcome("returned", FALSE,
                      IF same THEN <<"version_match">> ELSE <<"version_mismatch">>, files, {})
    ELSE Outcome("returned", FALSE, <<"replied_with_code">>, files, {})

\* command_list(); `packages` is the array of the reply.
command_list(reply, packages, files) ==
    IF reply.kind = "error" THEN Outcome("returned", FALSE, <<"error">>, files, {})
    ELSE IF reply.status = 200
         THEN Outcome("returned", FALSE,
                      IF packages = <<>> THEN <<"no_packages">>
                      ELSE <<"available">> \o packages, files, {})
    ELSE Outcome("returned", FALSE, <<"server_error">>, files, {})

\* The command the client last ran: its inputs and its outcome.
NoManifest == [kind |-> "none", status |-> 0, filename |-> <<>>, sha1 |-> NoSha1]
NoDownload == [kind |-> "none", status |-> 0, body |-> <<>>, broken |-> FALSE]
Ran(command, failed, mf, dl, before, outcome) ==
    [command |-> command, transport_failed |-> failed, mf |-> mf, dl |-> dl,
     before |-> before, exit |-> outcome.exit, printed |-> outcome.printed,
     touched |-> outcome.touched]
NoRun == [command |-> "none", transport_failed |-> FALSE, mf |-> NoManifest,
          dl |-> NoDownload, before |-> NoFile, exit |-> "none", printed |-> <<>>,
          touched |-> {}]

AtPrompt == run.command = "none"
ServerVarsUnchanged == UNCHANGED <<serverIni, storage, response>>

RunTouch ==
    /\ AtPrompt
    /\ \E reply \in Replies :
          LET outcome == command_touch(reply, localFiles)
          IN  /\ run' = Ran("touch", reply.kind = "error", NoManifest, NoDownload,
                            NoFile, outcome)
              /\ localFiles' = outcome.files
    /\ ServerVarsUnchanged /\ ConfigVarsUnchanged

RunVersion ==
    /\ AtPrompt
    /\ \E reply \in Replies, same \in BOOLEAN :
          LET outcome == command_version(reply, same, localFiles)
          IN  /\ run' = Ran("version", reply.kind = "error", NoManifest, NoDownload,
                            NoFile, outcome)
              /\ localFiles' = outcome.files
    /\ ServerVarsUnchanged /\ ConfigVarsUnchanged

RunList ==
    /\ AtPrompt
    /\ \E reply \in Replies, packages \in {<<>>, <<"widget">>} :
          LET outcome == command_list(reply, packages, localFiles)
          IN  /\ run' = Ran("list", reply.kind = "error", NoManifest, NoDownload,
                            NoFile, outcome)
              /\ localFiles' = outcome.files
    /\ ServerVarsUnchanged /\ ConfigVarsUnchanged

\* `mochi fetch`: the download request is made only after a 200 manifest.
RunFetch ==
    /\ AtPrompt
    /\ \E mf \in ManifestReplies, dl \in DownloadReplies :
          LET outcome == command_fetch(mf, dl, localFiles)
              asked == mf.kind = "reply" /\ mf.status = 200
              target == Resolve(PathJoin(Cwd, mf.filename))
          IN  /\ asked \/ dl = [kind |-> "error", status |-> 0, body |-> <<>>, broken |-> FALSE]
              /\ run' = Ran("fetch",
                            mf.kind = "error" \/ (asked /\ (dl.kind = "error" \/ dl.broken)),
                            mf, IF asked THEN dl ELSE NoDownload,
                            IF asked THEN localFiles[target] ELSE NoFile, outcome)
              /\ localFiles' = outcome.files
    /\ ServerVarsUnchanged /\ ConfigVarsUnchanged

\* The CLI process ends; the shell prompts again.
ProcessExit ==
    /\ ~AtPrompt
    /\ run' = NoRun
    /\ UNCHANGED localFiles
    /\ ServerVarsUnchanged /\ ConfigVarsUnchanged

\* ------------------------------------------------- client configuration

\* The values `mochi token` and `mochi server` are given: text of a letter, the
\* blank and the percent sign.
ValueSymbols == {"a", " ", "%"}
RECURSIVE Texts(_)
Texts(n) ==
    IF n = 0 THEN {<<>>}
    ELSE LET shorter == Texts(n - 1)
         IN  shorter \cup {Append(t, c) : t \in {u \in shorter : Len(u) = n - 1},
                                          c \in ValueSymbols}

\* BasicInterpolation.before_set: with every "%%" taken out (the model's text
\* has no "%(name)s"), a value that still holds a "%" is refused (ValueError).
RECURSIVE WithoutDoubledPercent(_)
WithoutDoubledPercent(v) ==
    IF Len(v) < 2 THEN v
    ELSE IF v[1] = "%" /\ v[2] = "%" THEN WithoutDoubledPercent(Drop(v, 2))
    ELSE <<v[1]>> \o WithoutDoubledPercent(Tail(v))
AcceptedBySet(v) ==
    v = <<>> \/ \A i \in DOMAIN WithoutDoubledPercent(v) : WithoutDoubledPercent(v)[i] # "%"

\* BasicInterpolation.before_get: "%%" reads as "%"; any other "%" raises
\* InterpolationSyntaxError.
RECURSIVE Interpolate(_)
Interpolate(v) ==
    IF v = <<>> THEN [ok |-> TRUE, val |-> <<>>]
    ELSE IF v[1] # "%"
         THEN LET rest == Interpolate(Tail(v))
              IN  [ok |-> rest.ok, val |-> <<v[1]>> \o rest.val]
    ELSE IF Len(v) >= 2 /\ v[2] = "%"
         THEN LET rest == Interpolate(Drop(v, 2))
              IN  [ok |-> rest.ok, val |-> <<"%">> \o rest.val]
    ELSE [ok |-> FALSE, val |-> <<>>]

\* ConfigParser.read: every value comes out of the file stripped.
StripOpts(opts) == [o \in DOMAIN opts |-> Strip(opts[o])]
ReadIni(ini) ==
    [defaults |-> StripOpts(ini.defaults),
     sections |-> [i \in DOMAIN ini.sections |->
                      [name |-> ini.sections[i].name,
                       opts |-> StripOpts(ini.sections[i].opts)]]]

\* The configuration the client's load_configuration builds when mochi.ini is
\* missing.
ClientDefaultConfig ==
    [defaults |-> NoOpts,
     sections |-> <<[name |-> "mochi",
                     opts |-> [o \in {"server", "token", "verify_ssl"} |->
                                  IF o = "server" THEN <<"https://127.0.0.1:8080">>
                                  ELSE IF o = "token" THEN <<"0", "0", "0", "0">>
                                  ELSE <<"false">>]]>>]

\* The client's load_configuration(file_path).
client_load_configuration(ini) ==
    IF ~ini.exists
    THEN [cfg |-> ClientDefaultConfig, ini |-> IniOf(ClientDefaultConfig)]
    ELSE [cfg |-> ReadIni(ini), ini |-> ini]

\* if 'mochi' not in configuration: configuration['mochi'] = {}
WithMochi(cfg) ==
    IF Contains(cfg, "mochi") THEN cfg
    ELSE [cfg EXCEPT !.sections = Append(@, [name |-> "mochi", opts |-> NoOpts])]

\* configuration['mochi'][key] = value
SetMochi(cfg, key, value) ==
    LET i == CHOOSE j \in DOMAIN cfg.sections : cfg.sections[j].name = "mochi"
    IN  [cfg EXCEPT !.sections[i].opts = WithOpt(@, key, value)]

\* The body command_token and command_server share: load, make sure of [mochi],
\* set the key, write the file.  `exit` tells whether the set raised.
SetClientKey(ini, key, value) ==
    LET loaded == client_load_configuration(ini)
        configuration == WithMochi(loaded.cfg)
    IN  IF ~AcceptedBySet(value) THEN [exit |-> "raised", ini |-> loaded.ini]
        ELSE [exit |-> "returned", ini |-> IniOf(SetMochi(configuration, key, value))]

command_token(ini, new_token) == SetClientKey(ini, "token", new_token)

command_server(ini, new_address) == SetClientKey(ini, "server", new_address)

\* config.get('mochi', key, fallback=None) on a freshly loaded mochi.ini, as the
\* client does when it starts (lines 47-49): `ok` is FALSE when get raises.
Reloaded(ini, key) ==
    LET got == ConfigGet(client_load_configuration(ini).cfg, "mochi", key)
    IN  IF ~got.some THEN [ok |-> TRUE, some |-> FALSE, val |-> <<>>]
        ELSE [ok |-> Interpolate(got.val).ok, some |-> TRUE, val |-> Interpolate(got.val).val]

\* The mochi.ini files the commands start from: none, the default one, one
\* whose [mochi] lacks token and server, one without [mochi].
ClientInis ==
    {NoIni,
     IniOf(ClientDefaultConfig),
     [exists |-> TRUE, defaults |-> NoOpts,
      sections |-> <<[name |-> "mochi", opts |-> WithOpt(NoOpts, "verify_ssl", <<"true">>)]>>],
     [exists |-> TRUE, defaults |-> WithOpt(NoOpts, "token", <<"a">>),
      sections |-> <<[name |-> "other", opts |-> WithOpt(NoOpts, "file", <<"a">>)]>>]}

\* The token/server command last run: its value, whether it raised, the file as
\* load_configuration left it before the set, whether it repeats the call before
\* it, and the values the last token and server calls were given.
NoCall == [command |-> "none", value |-> <<>>, exit |-> "none", before |-> NoIni,
           repeats |-> FALSE, token |-> None, server |-> None]

RunToken ==
    /\ \E new_token \in Texts(MaxValueLen) :
          LET done == command_token(clientIni, new_token)
          IN  /\ clientIni' = done.ini
              /\ lastCall' = [command |-> "token", value |-> new_token, exit |-> done.exit,
                              before |-> client_load_configuration(clientIni).ini,
                              repeats |-> lastCall.command = "token"
                                          /\ lastCall.value = new_token,
                              token |-> Some(new_token), server |-> lastCall.server]
    /\ ServerVarsUnchanged /\ ClientVarsUnchanged

RunServer ==
    /\ \E new_address \in Texts(MaxValueLen) :
          LET done == command_server(clientIni, new_address)
          IN  /\ clientIni' = done.ini
              /\ lastCall' = [command |-> "server", value |-> new_address, exit |-> done.exit,
                              before |-> client_load_configuration(clientIni).ini,
                              repeats |-> lastCall.command = "server"
                                          /\ lastCall.value = new_address,
                              token |-> lastCall.token, server |-> Some(new_address)]
    /\ ServerVarsUnchanged /\ ClientVarsUnchanged

\* --------------------------------------------------------- specifications

InitServer ==
    /\ serverIni = NoIni
    /\ storage = [f \in FileNames |-> [exists |-> FALSE, bytes |-> <<>>]]
    /\ response = NoExchange

InitClient ==
    /\ localFiles = [p \in LocalPaths |-> NoFile]
    /\ run = NoRun

InitConfig ==
    /\ clientIni = NoIni
    /\ lastCall = NoCall

Init == InitServer /\ InitClient /\ InitConfig

Next ==
    \/ GET_api_touch
    \/ GET_api_version
    \/ GET_api_list
    \/ GET_api_get
    \/ GET_api_download
    \/ ReturnResponse
    \/ EditAddSection
    \/ EditRemoveSection
    \/ EditSetToken
    \/ EditSetFile
    \/ EditRemoveOption
    \/ StoreWrite
    \/ StoreRemove

Spec == Init /\ [][Next]_vars

NextClient ==
    \/ RunTouch
    \/ RunVersion
    \/ RunList
    \/ RunFetch
    \/ ProcessExit

SpecClient == Init /\ [][NextClient]_vars

InitAnyClientIni ==
    /\ InitServer
    /\ InitClient
    /\ clientIni \in ClientInis
    /\ lastCall = NoCall

NextConfig ==
    \/ RunToken
    \/ RunServer

SpecConfig == InitAnyClientIni /\ [][NextConfig]_vars

\* ------------------------------------------------------ claims on the client

\* The file command_fetch downloads to, and whether the run is a fetch whose
\* manifest carried a sha1 and whose download_file ran to its return.
FetchTarget == Resolve(PathJoin(Cwd, run.mf.filename))
FetchCompleted ==
    /\ run.command = "fetch"
    /\ run.mf.kind = "reply" /\ run.mf.status = 200
    /\ run.mf.sha1.some
    /\ run.exit = "returned"
Has(printed, message) == \E i \in DOMAIN printed : printed[i] = message

\* C2 as claimed: after a completed fetch for a manifest with a sha1, a file is
\* at the target path only if its SHA1 is the manifest's and success was reported;
\* when the received bytes hash differently the file is deleted, failure is
\* reported and success is not.
C2_OnlyVerifiedFileRemains ==
    FetchCompleted
    => /\ localFiles[FetchTarget].exists
             => /\ Sha1Of(localFiles[FetchTarget].bytes) = run.mf.sha1.val
                /\ Has(run.printed, "done")
       /\ (run.dl.status = 200 /\ Sha1Of(run.dl.body) # run.mf.sha1.val)
             => /\ ~localFiles[FetchTarget].exists
                /\ Has(run.printed, "sha1_mismatch")
                /\ ~Has(run.printed, "done")

\* C2 amended: the same, for a download request answered with 200; a download
\* request answered with another status leaves the target path as it was, and
\* failure is reported and success is not.
C2_OnlyVerifiedFileRemainsAfter200 ==
    FetchCompleted
    => /\ (run.dl.status = 200 /\ localFiles[FetchTarget].exists)
             => /\ Sha1Of(localFiles[FetchTarget].bytes) = run.mf.sha1.val
                /\ Has(run.printed, "done")
       /\ (run.dl.status = 200 /\ Sha1Of(run.dl.body) # run.mf.sha1.val)
             => /\ ~localFiles[FetchTarget].exists
                /\ Has(run.printed, "sha1_mismatch")
                /\ ~Has(run.printed, "done")
       /\ run.dl.status # 200
             => /\ localFiles[FetchTarget] = run.before
                /\ Has(run.printed, "download_failed")
                /\ ~Has(run.printed, "done")

\* C2 witness: a fetch over an earlier download of the same name, whose bytes
\* do not match the manifest; the file is gone.
C2_Witness ==
    /\ FetchCompleted
    /\ run.before.exists
    /\ run.dl.status = 200
    /\ Sha1Of(run.dl.body) # run.mf.sha1.val
    /\ ~localFiles[FetchTarget].exists

\* C5: a transport failure of a request made by touch, version, list or fetch
\* is caught in the command and reported; the command returns.
C5_TransportFailureCaught ==
    (run.command \in {"touch", "version", "list", "fetch"} /\ run.transport_failed)
    => run.exit = "returned" /\ Has(run.printed, "error")

\* C6: the only file command_fetch writes or removes is one in the current
\* working directory.
C6_WritesOnlyInCwd ==
    run.command = "fetch"
    => \A path \in run.touched :
          /\ Len(path) = Len(Resolve(Cwd)) + 1
          /\ SubSeq(path, 1, Len(Resolve(Cwd))) = Resolve(Cwd)

\* ---------------------------------------- claims on the client configuration

\* The options of mochi.ini, read afresh, other than [mochi] `key`.
OtherOptions(ini, key) ==
    LET cfg == ReadIni(ini)
    IN  [defaults |-> cfg.defaults,
         sections |-> [i \in DOMAIN cfg.sections |->
                          [name |-> cfg.sections[i].name,
                           opts |-> IF cfg.sections[i].name = "mochi"
                                    THEN WithoutOpt(cfg.sections[i].opts, key)
                                    ELSE cfg.sections[i].opts]]]

WithMochiIni(ini) == IniOf(WithMochi(ReadIni(ini)))

\* C8: after any token and server commands, mochi.ini read afresh gives the
\* token of the last token command and the server of the last server command;
\* a command leaves every other option as it was; a command repeated with the
\* same value leaves the file as it is.
C8_LastWriteWins ==
    /\ lastCall.token.some
          => Reloaded(clientIni, "token") = [ok |-> TRUE, some |-> TRUE, val |-> lastCall.token.val]
    /\ lastCall.server.some
          => Reloaded(clientIni, "server") = [ok |-> TRUE, some |-> TRUE, val |-> lastCall.server.val]
    /\ lastCall.command \in {"token", "server"}
          => OtherOptions(clientIni, lastCall.command)
                = OtherOptions(WithMochiIni(lastCall.before), lastCall.command)
    /\ lastCall.repeats => clientIni = lastCall.before

====
